---- MODULE Spec2Model ----
(***************************************************************************)
(* State-machine model of the OpenGL 3D scene program:                     *)
(*   SceneManager  - texture registry, material catalogue, shader pushes   *)
(*   ViewManager   - camera control, projection mode, per-frame view build *)
(* Angles are in tenths of a degree, colours in hundredths, times in ticks.*)
(***************************************************************************)
EXTENDS Integers, Sequences, FiniteSets, TLC

(***************************************************************************)
(* Bounds of the model (not program constants).                            *)
(***************************************************************************)
\* handles glGenTextures may hand out in the registry specification
MaxHandles == 4
\* loads of the capacity specification that may use any tag (later ones use "marble")
CapMixed == 2
\* unsupported-channel loads allowed in the capacity specification
CapLeaks == 1
\* latest time, in ticks, at which a frame is built
MaxTime == 1

(***************************************************************************)
(* Program constants.                                                      *)
(***************************************************************************)
\* TEXTURE_INFO m_textureIDs[16] (SceneManager.h); "up to 16 slots"
MaxTextures == 16
\* sentinel returned by the texture lookups on a miss
NotFound == -1

NULL == "NULL"
SHADER == "shader"

\* tags the scene loads, and one tag that is never loaded
Tags == {"marble", "wood"}
QueryTags == Tags \cup {"missing"}

\* outcome of stbi_load: 0 = no image (NULL), otherwise the channel count
Decodes == {0, 1, 3, 4}

\* a registry slot that no load has written yet
BlankEntry == [ID |-> 0, tag |-> ""]

(***************************************************************************)
(* Materials (colours in hundredths).                                      *)
(***************************************************************************)
plasticMaterial ==
    [diffuseColor |-> <<50, 50, 50>>, specularColor |-> <<70, 70, 70>>,
     shininess |-> 500, tag |-> "plastic"]
woodMaterial ==
    [diffuseColor |-> <<60, 50, 20>>, specularColor |-> <<50, 20, 50>>,
     shininess |-> 100, tag |-> "wood"]
stoneMaterial ==
    [diffuseColor |-> <<50, 50, 50>>, specularColor |-> <<73, 30, 30>>,
     shininess |-> 600, tag |-> "stone"]

MaterialTags == {"plastic", "wood", "stone", "nonexistent"}

\* the three fields of a material descriptor without its tag
Fields(m) ==
    [diffuseColor |-> m.diffuseColor, specularColor |-> m.specularColor,
     shininess |-> m.shininess]

\* contents an OBJECT_MATERIAL local may hold when it is declared without an
\* initialiser: whatever the stack held (an earlier descriptor, or garbage)
Indeterminate ==
    {Fields(plasticMaterial), Fields(woodMaterial), Fields(stoneMaterial),
     [diffuseColor |-> <<0, 0, 0>>, specularColor |-> <<0, 0, 0>>,
      shininess |-> -1],
     [diffuseColor |-> <<-1, -1, -1>>, specularColor |-> <<-1, -1, -1>>,
      shininess |-> -1]}

\* a uniform no operation has written yet; a written scalar v is <<v>>
UNSET == <<>>

VARIABLES
    m_pShaderManager,   \* SceneManager's shading interface: NULL or SHADER
    m_textureIDs,       \* [0..MaxTextures-1 -> [ID, tag]]
    m_loadedTextures,   \* number of registered textures
    m_objectMaterials,  \* sequence of material descriptors
    uniforms,           \* the shader program's uniform values, by name
    nextHandle,         \* next texture name glGenTextures hands out
    glTextures,         \* texture names generated and not deleted
    leakedImages,       \* decoded pixel buffers never freed
    boundTexture,       \* [unit -> texture bound to GL_TEXTURE_2D of that unit]
    activeUnit,         \* glActiveTexture selection
    crashed,            \* undefined behaviour ended the run
    loadLog,            \* history: <<[tag, ID]>> of the successful loads, in order
    meshLoads,          \* [mesh -> number of times its buffers were loaded]
    running,            \* the scene handler in progress, "" when none is
    pc,                 \* position in the running handler's call sequence
    trace,              \* history: calls of the running handler, in RenderScene
                        \* those since the last draw
    lastOp,             \* history: name of the last operation
    lastArg,            \* history: its argument
    lastRet,            \* history: its result, for a frame the camera moves
                        \* its keyboard poll made
    prevUniforms,       \* history: uniforms before the last operation
    v_pShaderManager,   \* ViewManager's shading interface: NULL or SHADER
    m_pWindow,          \* NULL, or WINDOW once the display window exists
    glfwTerminated,     \* glfwTerminate was called
    windowShouldClose,  \* close flag of the window
    g_pCamera,          \* [Position, Yaw, Pitch, Zoom, MovementSpeed]
    gLastX, gLastY,     \* last cursor position seen by the mouse callback
    gFirstMouse,        \* no mouse event has been seen yet
    gDeltaTime,         \* time between the last two frames
    gLastFrame,         \* time of the last frame
    bOrthographicProjection,
    handed,             \* history: offsets last handed to the camera
    built,              \* history: view and projection built by the last frame
    prevView            \* history: view state before the last operation

sceneVars ==
    <<m_pShaderManager, m_textureIDs, m_loadedTextures, m_objectMaterials,
      nextHandle, glTextures, leakedImages, boundTexture, activeUnit, loadLog>>

viewVars ==
    <<v_pShaderManager, m_pWindow, glfwTerminated, windowShouldClose,
      g_pCamera, gLastX, gLastY, gFirstMouse, gDeltaTime, gLastFrame,
      bOrthographicProjection>>

viewHistory == <<handed, built, prevView>>

scriptVars == <<running, pc, trace>>

vars ==
    <<m_pShaderManager, m_textureIDs, m_loadedTextures, m_objectMaterials,
      uniforms, nextHandle, glTextures, leakedImages, boundTexture, activeUnit,
      crashed, loadLog, meshLoads, scriptVars, lastOp, lastArg, lastRet,
      prevUniforms, viewVars, viewHistory>>

(***************************************************************************)
(* Camera state of the view manager.                                       *)
(***************************************************************************)
\* window size, and the clip planes and orthographic half-extent in tenths
WINDOW_WIDTH == 1000
WINDOW_HEIGHT == 800
NearPlane == 1
FarPlane == 1000
orthoScale == 100

\* pitch limit of the camera, in tenths of a degree
PitchLimit == 890
\* tenths of a degree the camera turns per pixel of cursor offset
MouseSensitivity == 1

\* Position is kept as a sum of displacements: a set of <<direction, amount>>
\* pairs added to the starting point (0, 5, 20), one pair per unit direction
\* the camera has moved along, with a non-zero amount
InitialCamera ==
    [Position |-> {}, Yaw |-> -900, Pitch |-> 0, Zoom |-> 80, MovementSpeed |-> 20]

\* unit vectors of the camera basis, named by the angles they are derived from
Front(cam) == <<"front", cam.Yaw, cam.Pitch>>
Right(cam) == <<"right", cam.Yaw>>
WorldUp == <<"up">>

ViewSnapshot ==
    [camera |-> g_pCamera, ortho |-> bOrthographicProjection,
     lastX |-> gLastX, lastY |-> gLastY, firstMouse |-> gFirstMouse,
     deltaTime |-> gDeltaTime, lastFrame |-> gLastFrame]

\* the uniforms SetupSceneLights sets, in the order it sets them: vectors in
\* hundredths, the spot light's five scalars in ten-thousandths, booleans 0/1
LightWrites ==
    <<<<"bUseLighting", <<1>>>>,
      <<"pointLights[0].position", <<400, 600, 200>>>>,
      <<"pointLights[0].ambient", <<5, 5, 5>>>>,
      <<"pointLights[0].diffuse", <<100, 100, 100>>>>,
      <<"pointLights[0].specular", <<20, 20, 20>>>>,
      <<"pointLights[0].bActive", <<1>>>>,
      <<"pointLights[1].position", <<-400, -400, -400>>>>,
      <<"pointLights[1].ambient", <<5, 5, 5>>>>,
      <<"pointLights[1].diffuse", <<80, 80, 80>>>>,
      <<"pointLights[1].specular", <<20, 20, 20>>>>,
      <<"pointLights[1].bActive", <<1>>>>,
      <<"directionalLight.direction", <<720, 720, 150>>>>,
      <<"directionalLight.ambient", <<5, 5, 1>>>>,
      <<"directionalLight.diffuse", <<80, 80, 80>>>>,
      <<"directionalLight.specular", <<20, 20, 20>>>>,
      <<"directionalLight.bActive", <<1>>>>,
      <<"spotLight.ambient", <<0, 0, 0>>>>,
      <<"spotLight.diffuse", <<100, 100, 100>>>>,
      <<"spotLight.specular", <<100, 100, 100>>>>,
      <<"spotLight.constant", <<10000>>>>,
      <<"spotLight.linear", <<140>>>>,
      <<"spotLight.quadratic", <<7>>>>,
      <<"spotLight.cutOff", <<9239>>>>,
      <<"spotLight.outerCutOff", <<8829>>>>,
      <<"spotLight.bActive", <<1>>>>>>

LightNames == {LightWrites[i][1] : i \in 1..Len(LightWrites)}

UniformNames ==
    {"model", "bUseTexture", "objectTexture", "objectColor", "UVscale",
     "material.diffuseColor", "material.specularColor", "material.shininess",
     "view", "projection", "spotLight.position", "spotLight.direction"}
        \cup LightNames

Units == 0..MaxTextures

(***************************************************************************)
(* Call sequences of PrepareScene and RenderScene.  Lengths, positions and *)
(* colours are in hundredths, angles in degrees.                           *)
(***************************************************************************)
Meshes == {"Plane", "Cylinder", "TaperedCylinder", "Box"}

DrawOps == {"DrawBoxMesh", "DrawCylinderMesh", "DrawTaperedCylinderMesh"}

\* a preparation that binds the texture units before it loads the textures
PrepareScriptBindFirst ==
    <<<<"BindGLTextures", "">>,
      <<"CreateGLTexture", "marble">>,
      <<"CreateGLTexture", "wood">>,
      <<"DefineObjectMaterials", "">>,
      <<"SetupSceneLights", "">>,
      <<"LoadMesh", "Plane">>,
      <<"LoadMesh", "Cylinder">>,
      <<"LoadMesh", "TaperedCylinder">>,
      <<"LoadMesh", "Box">>>>

\* LoadSceneTextures (two loads and the bind), then the rest of PrepareScene
PrepareScript ==
    <<<<"CreateGLTexture", "marble">>,
      <<"CreateGLTexture", "wood">>,
      <<"BindGLTextures", "">>,
      <<"DefineObjectMaterials", "">>,
      <<"SetupSceneLights", "">>,
      <<"LoadMesh", "Plane">>,
      <<"LoadMesh", "Cylinder">>,
      <<"LoadMesh", "TaperedCylinder">>,
      <<"LoadMesh", "Box">>>>

\* the objects RenderScene draws, in order: the arguments of SetTransformations,
\* the shading calls in the order they are written, and the mesh drawn
SceneObjects ==
    <<\* table top
      [transform |-> <<<<4000, 50, 2000>>, 0, 0, 0, <<0, 0, 0>>>>,
       shading |-> <<<<"SetShaderMaterial", "wood">>, <<"SetShaderTexture", "marble">>>>,
       mesh |-> "Box"],
      \* four table legs
      [transform |-> <<<<30, 300, 30>>, 0, 0, 0, <<-1940, -300, -955>>>>,
       shading |-> <<<<"SetShaderTexture", "wood">>>>,
       mesh |-> "Cylinder"],
      [transform |-> <<<<30, 300, 30>>, 0, 0, 0, <<1940, -300, -955>>>>,
       shading |-> <<<<"SetShaderTexture", "wood">>>>,
       mesh |-> "Cylinder"],
      [transform |-> <<<<30, 300, 30>>, 0, 0, 0, <<-1940, -300, 955>>>>,
       shading |-> <<<<"SetShaderTexture", "wood">>>>,
       mesh |-> "Cylinder"],
      [transform |-> <<<<30, 300, 30>>, 0, 0, 0, <<1940, -300, 955>>>>,
       shading |-> <<<<"SetShaderTexture", "wood">>>>,
       mesh |-> "Cylinder"],
      \* body of the bowl
      [transform |-> <<<<150, 90, 150>>, 0, 0, 0, <<0, 0, 0>>>>,
       shading |-> <<<<"SetShaderColor", <<100, 100, 100, 100>>>>,
                     <<"SetShaderMaterial", "plastic">>>>,
       mesh |-> "Cylinder"],
      \* upper slope of the bowl
      [transform |-> <<<<200, 30, 200>>, 180, 0, 0, <<0, 100, 0>>>>,
       shading |-> <<<<"SetShaderMaterial", "stone">>, <<"SetShaderTexture", "marble">>>>,
       mesh |-> "TaperedCylinder"],
      \* microwave body
      [transform |-> <<<<950, 520, 550>>, 0, 0, 0, <<1000, 300, 0>>>>,
       shading |-> <<<<"SetShaderMaterial", "plastic">>,
                     <<"SetShaderColor", <<50, 50, 50, 100>>>>>>,
       mesh |-> "Box"],
      \* microwave front panel
      [transform |-> <<<<950, 520, 10>>, 0, 0, 0, <<1000, 300, 280>>>>,
       shading |-> <<<<"SetShaderMaterial", "plastic">>, <<"SetShaderTexture", "marble">>>>,
       mesh |-> "Box"],
      \* microwave control panel
      [transform |-> <<<<30, 70, 150>>, 0, 90, 0, <<1320, 130, 285>>>>,
       shading |-> <<<<"SetShaderMaterial", "plastic">>, <<"SetShaderTexture", "wood">>>>,
       mesh |-> "Box"],
      \* ice maker body
      [transform |-> <<<<450, 500, 420>>, 0, 0, 0, <<-500, 270, 0>>>>,
       shading |-> <<<<"SetShaderMaterial", "plastic">>,
                     <<"SetShaderColor", <<80, 10, 10, 100>>>>>>,
       mesh |-> "Box"],
      \* ice maker front
      [transform |-> <<<<227, 500, 180>>, 0, 0, 0, <<-500, 20, 196>>>>,
       shading |-> <<<<"SetShaderMaterial", "plastic">>,
                     <<"SetShaderColor", <<80, 10, 10, 100>>>>>>,
       mesh |-> "Cylinder"],
      \* pitcher body
      [transform |-> <<<<100, 250, 100>>, 0, 0, 0, <<150, 0, -400>>>>,
       shading |-> <<<<"SetShaderMaterial", "plastic">>,
                     <<"SetShaderColor", <<40, 90, 90, 400>>>>>>,
       mesh |-> "Cylinder"],
      \* pitcher spout
      [transform |-> <<<<20, 30, 30>>, 45, 0, 0, <<150, 190, -320>>>>,
       shading |-> <<<<"SetShaderMaterial", "plastic">>,
                     <<"SetShaderColor", <<40, 90, 90, 400>>>>>>,
       mesh |-> "Cylinder"]>>

\* an object whose shading calls are issued last one first
GroupCallsShadingReversed(object) ==
    <<<<"SetTransformations", object.transform>>>>
        \o [i \in 1..Len(object.shading) |->
              object.shading[Len(object.shading) + 1 - i]]
        \o <<<<"DrawMesh", object.mesh>>>>

\* an object drawn after its transform and material only, its colour and
\* texture calls left out
GroupCallsMaterialOnly(object) ==
    <<<<"SetTransformations", object.transform>>>>
        \o SelectSeq(object.shading, LAMBDA call : call[1] = "SetShaderMaterial")
        \o <<<<"DrawMesh", object.mesh>>>>

\* the calls RenderScene makes for one object
GroupCalls(object) ==
    <<<<"SetTransformations", object.transform>>>>
        \o object.shading
        \o <<<<"DrawMesh", object.mesh>>>>

RECURSIVE CallsOf(_)
CallsOf(n) ==
    IF n = 0 THEN <<>> ELSE CallsOf(n - 1) \o GroupCalls(SceneObjects[n])

RenderScript == CallsOf(Len(SceneObjects))

Script(handler) ==
    IF handler = "PrepareScene" THEN PrepareScript
    ELSE IF handler = "RenderScene" THEN RenderScript
    ELSE <<>>

(***************************************************************************)
(* State after construction.                                               *)
(***************************************************************************)
Init ==
    /\ m_pShaderManager \in {NULL, SHADER}
    /\ m_textureIDs = [i \in 0..(MaxTextures - 1) |-> BlankEntry]
    /\ m_loadedTextures = 0
    /\ m_objectMaterials = <<>>
    /\ uniforms = [n \in UniformNames |-> UNSET]
    /\ nextHandle = 1
    /\ glTextures = {}
    /\ leakedImages = 0
    /\ boundTexture = [u \in Units |-> 0]
    /\ activeUnit = 0
    /\ crashed = FALSE
    /\ loadLog = <<>>
    /\ meshLoads = [mesh \in Meshes |-> 0]
    /\ running = ""
    /\ pc = 0
    /\ trace = <<>>
    /\ lastOp = "init"
    /\ lastArg = ""
    /\ lastRet = 0
    /\ prevUniforms = [n \in UniformNames |-> UNSET]
    /\ v_pShaderManager = m_pShaderManager
    /\ m_pWindow = NULL
    /\ glfwTerminated = FALSE
    /\ windowShouldClose = FALSE
    /\ g_pCamera = InitialCamera
    /\ gLastX = 0
    /\ gLastY = 0
    /\ gFirstMouse = TRUE
    /\ gDeltaTime = 0
    /\ gLastFrame = 0
    /\ bOrthographicProjection = FALSE
    /\ handed = <<>>
    /\ built = <<>>
    /\ prevView = ViewSnapshot

\* history bookkeeping of an operation
History(op, arg, ret) ==
    /\ lastOp' = op
    /\ lastArg' = arg
    /\ lastRet' = ret
    /\ prevUniforms' = uniforms
    /\ prevView' = ViewSnapshot

\* a call made by the running handler moves it to its next call, or out of
\* the handler after its last one; a call made outside a handler does not
Advance(op) ==
    /\ pc' = IF running = "" THEN pc
             ELSE IF pc = Len(Script(running)) THEN 0 ELSE pc + 1
    /\ running' = IF pc = Len(Script(running)) THEN "" ELSE running
    /\ trace' = IF running = "" THEN trace
                ELSE IF trace # <<>> /\ trace[Len(trace)] \in DrawOps THEN <<op>>
                ELSE Append(trace, op)

\* bookkeeping of an operation other than a mesh load
Record(op, arg, ret) ==
    /\ History(op, arg, ret)
    /\ Advance(op)
    /\ UNCHANGED meshLoads

\* bookkeeping of a scene-manager operation, which leaves the view manager alone
Called(op, arg, ret) ==
    /\ Record(op, arg, ret)
    /\ UNCHANGED <<viewVars, handed, built>>

(***************************************************************************)
(* Texture registry.                                                       *)
(***************************************************************************)
\* what a read of m_textureIDs[i] past the end of the array may yield
StrayEntries ==
    {[ID |-> h, tag |-> t] : h \in 0..nextHandle, t \in QueryTags \cup {""}}

\* the array as the scans see it: reads of index MaxTextures.. are out of
\* bounds and yield the entry e
Seen(e) ==
    [i \in 0..MaxTextures |->
        IF i < MaxTextures THEN m_textureIDs[i] ELSE e]

\* the entries a scan of n slots may read out of bounds
StrayFor(n) == IF n > MaxTextures THEN StrayEntries ELSE {BlankEntry}

RECURSIVE ScanTextureSlot(_, _, _, _)
ScanTextureSlot(arr, n, tag, index) ==
    IF index < n
    THEN IF arr[index].tag = tag
         THEN index
         ELSE ScanTextureSlot(arr, n, tag, index + 1)
    ELSE NotFound

\* a scan that keeps going after a match and so reports the latest entry
FindTextureSlotLastMatch(arr, n, tag) ==
    LET hits == {i \in 0..(n - 1) : arr[i].tag = tag}
    IN  IF hits = {} THEN NotFound
        ELSE CHOOSE i \in hits : \A j \in hits : j <= i

FindTextureSlot(arr, n, tag) == ScanTextureSlot(arr, n, tag, 0)

RECURSIVE ScanTextureID(_, _, _, _)
ScanTextureID(arr, n, tag, index) ==
    IF index < n
    THEN IF arr[index].tag = tag
         THEN arr[index].ID
         ELSE ScanTextureID(arr, n, tag, index + 1)
    ELSE NotFound

\* a lookup that hands back the slot index where the handle is meant
FindTextureIDReturnsIndex(arr, n, tag) == ScanTextureSlot(arr, n, tag, 0)

FindTextureID(arr, n, tag) == ScanTextureID(arr, n, tag, 0)

\* the outcomes of registering a texture: in bounds the slot is written; past
\* the end of the array the write is undefined behaviour
StoreOutcomes ==
    IF m_loadedTextures < MaxTextures THEN {"stored"} ELSE {"stray", "crash"}

\* stbi_load returned NULL: nothing but the log line
LoadNoImage(tag) ==
    /\ Called("CreateGLTexture", tag, FALSE)
    /\ UNCHANGED <<sceneVars, uniforms, crashed>>

\* an unsupported-channel load that registers the texture before it bails out
LoadUnsupportedRegisters(tag) ==
    /\ nextHandle' = nextHandle + 1
    /\ glTextures' = glTextures \cup {nextHandle}
    /\ boundTexture' = [boundTexture EXCEPT ![activeUnit] = nextHandle]
    /\ leakedImages' = leakedImages + 1
    /\ m_textureIDs' =
          [i \in DOMAIN m_textureIDs |->
              IF i = m_loadedTextures THEN [ID |-> nextHandle, tag |-> tag]
              ELSE m_textureIDs[i]]
    /\ m_loadedTextures' = m_loadedTextures + 1
    /\ Called("CreateGLTexture", tag, FALSE)
    /\ UNCHANGED <<m_pShaderManager, m_objectMaterials, uniforms, activeUnit,
                   crashed, loadLog>>

\* neither 3 nor 4 channels: the texture is generated and bound, then the
\* early return; the image is not freed and the texture stays bound
LoadUnsupported(tag) ==
    /\ nextHandle' = nextHandle + 1
    /\ glTextures' = glTextures \cup {nextHandle}
    /\ boundTexture' = [boundTexture EXCEPT ![activeUnit] = nextHandle]
    /\ leakedImages' = leakedImages + 1
    /\ Called("CreateGLTexture", tag, FALSE)
    /\ UNCHANGED <<m_pShaderManager, m_textureIDs, m_loadedTextures,
                   m_objectMaterials, uniforms, activeUnit, crashed, loadLog>>

\* 3 or 4 channels: upload, free the image, unbind, register under the tag
LoadStored(tag) ==
    /\ nextHandle' = nextHandle + 1
    /\ glTextures' = glTextures \cup {nextHandle}
    /\ boundTexture' = [boundTexture EXCEPT ![activeUnit] = 0]
    /\ \E outcome \in StoreOutcomes :
         /\ m_textureIDs' =
               IF outcome = "stored"
               THEN [m_textureIDs EXCEPT
                       ![m_loadedTextures] = [ID |-> nextHandle, tag |-> tag]]
               ELSE m_textureIDs
         /\ m_loadedTextures' =
               IF outcome = "crash" THEN m_loadedTextures
               ELSE m_loadedTextures + 1
         /\ crashed' = (outcome = "crash")
         /\ loadLog' =
               IF outcome = "crash" THEN loadLog
               ELSE Append(loadLog, [tag |-> tag, ID |-> nextHandle])
    /\ Called("CreateGLTexture", tag, TRUE)
    /\ UNCHANGED <<m_pShaderManager, m_objectMaterials, uniforms,
                   leakedImages, activeUnit>>

CreateGLTexture(tag, channels) ==
    /\ ~crashed
    /\ IF channels = 0 THEN LoadNoImage(tag)
       ELSE IF channels \notin {3, 4} THEN LoadUnsupported(tag)
       ELSE LoadStored(tag)

\* a bind loop that selects GL_TEXTURE0 + i + 1 for entry i
BindGLTexturesNextUnit ==
    /\ ~crashed
    /\ \E e \in StrayFor(m_loadedTextures) :
         /\ boundTexture' =
               [u \in Units |->
                   IF 0 < u /\ u <= m_loadedTextures /\ u < MaxTextures
                   THEN Seen(e)[u - 1].ID ELSE boundTexture[u]]
    /\ activeUnit' = IF m_loadedTextures > 0 THEN m_loadedTextures ELSE activeUnit
    /\ Called("BindGLTextures", "", m_loadedTextures)
    /\ UNCHANGED <<m_pShaderManager, m_textureIDs, m_loadedTextures,
                   m_objectMaterials, uniforms, nextHandle, glTextures,
                   leakedImages, crashed, loadLog>>

\* the texture bound to each unit after the loop over i = 0..n-1
BindGLTextures ==
    /\ ~crashed
    /\ \E e \in StrayFor(m_loadedTextures) :
         /\ boundTexture' =
               [u \in Units |->
                   IF u < m_loadedTextures THEN Seen(e)[u].ID ELSE boundTexture[u]]
    /\ activeUnit' = IF m_loadedTextures > 0 THEN m_loadedTextures - 1 ELSE activeUnit
    /\ Called("BindGLTextures", "", m_loadedTextures)
    /\ UNCHANGED <<m_pShaderManager, m_textureIDs, m_loadedTextures,
                   m_objectMaterials, uniforms, nextHandle, glTextures,
                   leakedImages, crashed, loadLog>>

\* the outcomes of the loop over the registered entries: past the end of the
\* array the write of a generated name is undefined behaviour
DestroyOutcomes ==
    IF m_loadedTextures <= MaxTextures THEN {"stored"} ELSE {"stray", "crash"}

\* glGenTextures(1, &m_textureIDs[i].ID) for every registered entry: a fresh
\* name overwrites each ID; nothing is deleted and the count is kept
DestroyGLTextures ==
    /\ ~crashed
    /\ \E outcome \in DestroyOutcomes :
         /\ m_textureIDs' =
               [i \in DOMAIN m_textureIDs |->
                   IF i < m_loadedTextures
                   THEN [ID |-> nextHandle + i, tag |-> m_textureIDs[i].tag]
                   ELSE m_textureIDs[i]]
         /\ nextHandle' = nextHandle + m_loadedTextures
         /\ glTextures' =
               glTextures \cup (nextHandle..(nextHandle + m_loadedTextures - 1))
         /\ crashed' = (outcome = "crash")
    /\ Called("DestroyGLTextures", "", 0)
    /\ UNCHANGED <<m_pShaderManager, m_loadedTextures, m_objectMaterials,
                   uniforms, leakedImages, boundTexture, activeUnit, loadLog>>

CallFindTextureID(tag) ==
    /\ ~crashed
    /\ \E e \in StrayFor(m_loadedTextures) :
         Called("FindTextureID", tag, FindTextureID(Seen(e), m_loadedTextures, tag))
    /\ UNCHANGED <<sceneVars, uniforms, crashed>>

CallFindTextureSlot(tag) ==
    /\ ~crashed
    /\ \E e \in StrayFor(m_loadedTextures) :
         Called("FindTextureSlot", tag, FindTextureSlot(Seen(e), m_loadedTextures, tag))
    /\ UNCHANGED <<sceneVars, uniforms, crashed>>

(***************************************************************************)
(* Shader pushes of the scene manager.                                     *)
(***************************************************************************)
Colors == {<<100, 100, 100, 100>>, <<50, 50, 50, 100>>}

SetShaderColor(color) ==
    /\ ~crashed
    /\ uniforms' =
          IF m_pShaderManager # NULL
          THEN [uniforms EXCEPT !["bUseTexture"] = <<0>>, !["objectColor"] = color]
          ELSE uniforms
    /\ Called("SetShaderColor", color, 0)
    /\ UNCHANGED <<sceneVars, crashed>>

SetShaderTexture(textureTag) ==
    /\ ~crashed
    /\ \E e \in StrayFor(m_loadedTextures) :
         uniforms' =
            IF m_pShaderManager # NULL
            THEN [uniforms EXCEPT
                    !["bUseTexture"] = <<1>>,
                    !["objectTexture"] =
                        <<FindTextureSlot(Seen(e), m_loadedTextures, textureTag)>>]
            ELSE uniforms
    /\ Called("SetShaderTexture", textureTag, 0)
    /\ UNCHANGED <<sceneVars, crashed>>

SetTextureUVScale(u, v) ==
    /\ ~crashed
    /\ uniforms' =
          IF m_pShaderManager # NULL
          THEN [uniforms EXCEPT !["UVscale"] = <<u, v>>]
          ELSE uniforms
    /\ Called("SetTextureUVScale", <<u, v>>, 0)
    /\ UNCHANGED <<sceneVars, crashed>>

(***************************************************************************)
(* Lights.                                                                 *)
(***************************************************************************)
\* the uniforms after the first n of a sequence of set*Value calls
RECURSIVE Pushed(_, _, _)
Pushed(u, writes, n) ==
    IF n = 0 THEN u
    ELSE [Pushed(u, writes, n - 1) EXCEPT ![writes[n][1]] = writes[n][2]]

\* every call goes through m_pShaderManager without a null check
SetupSceneLightsWrites(writes) ==
    /\ ~crashed
    /\ IF m_pShaderManager = NULL
       THEN /\ crashed' = TRUE
            /\ uniforms' = uniforms
       ELSE /\ crashed' = crashed
            /\ uniforms' = Pushed(uniforms, writes, Len(writes))
    /\ Called("SetupSceneLights", "", 0)
    /\ UNCHANGED sceneVars

\* a light setup that also sets the spot light's position
SetupSceneLightsSpotPosition ==
    SetupSceneLightsWrites(Append(LightWrites, <<"spotLight.position", <<0, 0, 0>>>>))

SetupSceneLights == SetupSceneLightsWrites(LightWrites)

(***************************************************************************)
(* Model matrix.  Scalars are in hundredths (Unit is 1.0f), matrices are   *)
(* four rows of four scalars, and a product is rounded to the hundredth.   *)
(***************************************************************************)
Unit == 100

\* cosine and sine of the angles the scene uses, in hundredths
CosDegrees(d) ==
    CASE d = 0 -> Unit [] d = 45 -> 71 [] d = 90 -> 0
      [] d = 180 -> -Unit [] d = 270 -> 0

SinDegrees(d) ==
    CASE d = 0 -> 0 [] d = 45 -> 71 [] d = 90 -> Unit
      [] d = 180 -> 0 [] d = 270 -> -Unit

Identity ==
    <<<<Unit, 0, 0, 0>>, <<0, Unit, 0, 0>>, <<0, 0, Unit, 0>>, <<0, 0, 0, Unit>>>>

\* glm::scale(scaleXYZ)
ScaleMatrix(s) ==
    <<<<s[1], 0, 0, 0>>, <<0, s[2], 0, 0>>, <<0, 0, s[3], 0>>, <<0, 0, 0, Unit>>>>

\* glm::rotate(glm::radians(degrees), axis) about the X, Y and Z axis
RotationX(d) ==
    <<<<Unit, 0, 0, 0>>,
      <<0, CosDegrees(d), -SinDegrees(d), 0>>,
      <<0, SinDegrees(d), CosDegrees(d), 0>>,
      <<0, 0, 0, Unit>>>>

RotationY(d) ==
    <<<<CosDegrees(d), 0, SinDegrees(d), 0>>,
      <<0, Unit, 0, 0>>,
      <<-SinDegrees(d), 0, CosDegrees(d), 0>>,
      <<0, 0, 0, Unit>>>>

RotationZ(d) ==
    <<<<CosDegrees(d), -SinDegrees(d), 0, 0>>,
      <<SinDegrees(d), CosDegrees(d), 0, 0>>,
      <<0, 0, Unit, 0>>,
      <<0, 0, 0, Unit>>>>

\* glm::translate(positionXYZ)
TranslationMatrix(p) ==
    <<<<Unit, 0, 0, p[1]>>, <<0, Unit, 0, p[2]>>, <<0, 0, Unit, p[3]>>,
      <<0, 0, 0, Unit>>>>

\* element (i, j) of the matrix product a * b
Dot(a, b, i, j) ==
    (a[i][1] * b[1][j] + a[i][2] * b[2][j] + a[i][3] * b[3][j]
        + a[i][4] * b[4][j]) \div Unit

MulRow(a, b, i) ==
    <<Dot(a, b, i, 1), Dot(a, b, i, 2), Dot(a, b, i, 3), Dot(a, b, i, 4)>>

\* matrix product a * b
Mul(a, b) == <<MulRow(a, b, 1), MulRow(a, b, 2), MulRow(a, b, 3), MulRow(a, b, 4)>>

\* a composition that applies the scale last and the translation first
ModelViewScaleLast(scaleXYZ, X, Y, Z, positionXYZ) ==
    Mul(Mul(Mul(Mul(ScaleMatrix(scaleXYZ), RotationX(X)), RotationY(Y)),
            RotationZ(Z)),
        TranslationMatrix(positionXYZ))

\* modelView = translation * rotationZ * rotationY * rotationX * scale
ModelView(scaleXYZ, X, Y, Z, positionXYZ) ==
    Mul(Mul(Mul(Mul(TranslationMatrix(positionXYZ), RotationZ(Z)), RotationY(Y)),
            RotationX(X)),
        ScaleMatrix(scaleXYZ))

SetTransformations(scaleXYZ, X, Y, Z, positionXYZ) ==
    /\ ~crashed
    /\ uniforms' =
          IF m_pShaderManager # NULL
          THEN [uniforms EXCEPT
                  !["model"] = <<ModelView(scaleXYZ, X, Y, Z, positionXYZ)>>]
          ELSE uniforms
    /\ Called("SetTransformations", <<scaleXYZ, X, Y, Z, positionXYZ>>, 0)
    /\ UNCHANGED <<sceneVars, crashed>>

(***************************************************************************)
(* Material catalogue.                                                     *)
(***************************************************************************)
\* model bound: calls of DefineObjectMaterials
MaxDefines == 1

RECURSIVE ScanMaterial(_, _, _)
ScanMaterial(tag, material, index) ==
    IF index <= Len(m_objectMaterials)
    THEN IF m_objectMaterials[index].tag = tag
         THEN Fields(m_objectMaterials[index])
         ELSE ScanMaterial(tag, material, index + 1)
    ELSE material

\* a lookup whose result says whether the tag matched
FindMaterialTagMatched(tag, material) ==
    [ret |-> \E i \in 1..Len(m_objectMaterials) : m_objectMaterials[i].tag = tag,
     material |-> ScanMaterial(tag, material, 1)]

\* result and out-parameter of FindMaterial(tag, material)
FindMaterial(tag, material) ==
    IF Len(m_objectMaterials) = 0
    THEN [ret |-> FALSE, material |-> material]
    ELSE [ret |-> TRUE, material |-> ScanMaterial(tag, material, 1)]

CallFindMaterial(tag, material) ==
    /\ ~crashed
    /\ Called("FindMaterial", [tag |-> tag, material |-> material],
              FindMaterial(tag, material))
    /\ UNCHANGED <<sceneVars, uniforms, crashed>>

\* what the three setVec3Value/setFloatValue calls do on m_pShaderManager
PushMaterial(material) ==
    IF m_pShaderManager = NULL
    THEN \* call through a null pointer
         /\ crashed' = TRUE
         /\ uniforms' = uniforms
    ELSE /\ crashed' = crashed
         /\ uniforms' = [uniforms EXCEPT
               !["material.diffuseColor"] = material.diffuseColor,
               !["material.specularColor"] = material.specularColor,
               !["material.shininess"] = <<material.shininess>>]

SetShaderMaterial(materialTag) ==
    /\ ~crashed
    /\ IF Len(m_objectMaterials) > 0
       THEN \E material \in Indeterminate :
               LET r == FindMaterial(materialTag, material)
               IN  IF r.ret = TRUE
                   THEN PushMaterial(r.material)
                   ELSE UNCHANGED <<uniforms, crashed>>
       ELSE UNCHANGED <<uniforms, crashed>>
    /\ Called("SetShaderMaterial", materialTag, 0)
    /\ UNCHANGED sceneVars

DefineObjectMaterials ==
    /\ ~crashed
    /\ Len(m_objectMaterials) < 3 * MaxDefines
    /\ m_objectMaterials' =
          m_objectMaterials \o <<plasticMaterial, woodMaterial, stoneMaterial>>
    /\ Called("DefineObjectMaterials", "", 0)
    /\ UNCHANGED <<m_pShaderManager, m_textureIDs, m_loadedTextures, uniforms,
                   nextHandle, glTextures, leakedImages, boundTexture,
                   activeUnit, crashed, loadLog>>

(***************************************************************************)
(* Specifications of the scene manager.                                    *)
(***************************************************************************)
\* texture registry with lookups and the texture/colour pushes
Load ==
    \E tag \in Tags, channels \in Decodes :
        /\ nextHandle <= MaxHandles
        /\ CreateGLTexture(tag, channels)

NextTexture ==
    \/ Load
    \/ BindGLTextures
    \/ \E tag \in QueryTags : CallFindTextureID(tag)
    \/ \E tag \in QueryTags : CallFindTextureSlot(tag)
    \/ \E color \in Colors : SetShaderColor(color)
    \/ \E tag \in QueryTags : SetShaderTexture(tag)

SpecTexture == Init /\ [][NextTexture]_vars

\* loads up to and past the capacity of the registry
LoadCap ==
    \E tag \in Tags, channels \in Decodes :
        /\ m_loadedTextures <= MaxTextures
        /\ tag = "marble" \/ m_loadedTextures < CapMixed
        /\ channels \in {3, 4} \/ leakedImages < CapLeaks
        /\ channels # 0
        /\ CreateGLTexture(tag, channels)

NextCap ==
    \/ LoadCap
    \/ BindGLTextures

SpecCap == Init /\ [][NextCap]_vars

\* texture registry with its teardown
Teardown ==
    /\ nextHandle <= MaxHandles + 1
    /\ DestroyGLTextures

NextTeardown ==
    \/ Load
    \/ Teardown
    \/ BindGLTextures
    \/ \E tag \in Tags : CallFindTextureID(tag)

SpecTeardown == Init /\ [][NextTeardown]_vars

\* model matrix of whole-number scales and translations and quarter turns:
\* the unit placement, and a non-uniform scale with a translation under every
\* combination of quarter turns
QuarterTurns == {0, 90, 180, 270}

TransformInputs ==
    {<<<<Unit, Unit, Unit>>, 0, 0, 0, <<0, 0, 0>>>>}
        \cup {<<<<2 * Unit, 3 * Unit, 4 * Unit>>, X, Y, Z,
                 <<Unit, -2 * Unit, 3 * Unit>>>> :
                   X \in QuarterTurns, Y \in QuarterTurns, Z \in QuarterTurns}

NextTransform ==
    \E input \in TransformInputs :
        SetTransformations(input[1], input[2], input[3], input[4], input[5])

SpecTransform == Init /\ [][NextTransform]_vars

(***************************************************************************)
(* Scene preparation and rendering.                                        *)
(***************************************************************************)
\* m_basicMeshes->Load<mesh>Mesh()
LoadMesh(mesh) ==
    /\ ~crashed
    /\ meshLoads' = [meshLoads EXCEPT ![mesh] = meshLoads[mesh] + 1]
    /\ History("Load" \o mesh \o "Mesh", "", 0)
    /\ Advance("Load" \o mesh \o "Mesh")
    /\ UNCHANGED <<sceneVars, uniforms, crashed, viewVars, handed, built>>

\* m_basicMeshes->Draw<mesh>Mesh(): drawn with the uniforms as they stand
DrawMesh(mesh) ==
    /\ ~crashed
    /\ Called("Draw" \o mesh \o "Mesh", "", 0)
    /\ UNCHANGED <<sceneVars, uniforms, crashed>>

\* entry into a handler: its first call is next
Enter(handler) ==
    /\ ~crashed
    /\ running = ""
    /\ running' = handler
    /\ pc' = 1
    /\ trace' = <<>>
    /\ History(handler, "", 0)
    /\ UNCHANGED <<sceneVars, uniforms, crashed, meshLoads, viewVars, handed, built>>

PrepareScene ==
    /\ Len(m_objectMaterials) < 3 * MaxDefines
    /\ Enter("PrepareScene")

\* the next call of PrepareScene; each texture decodes in any of the ways
PrepareSceneStep ==
    /\ running = "PrepareScene"
    /\ \E call \in {PrepareScript[pc]} :
         CASE call[1] = "CreateGLTexture" ->
                \E channels \in Decodes : CreateGLTexture(call[2], channels)
           [] call[1] = "BindGLTextures" -> BindGLTextures
           [] call[1] = "DefineObjectMaterials" -> DefineObjectMaterials
           [] call[1] = "SetupSceneLights" -> SetupSceneLights
           [] call[1] = "LoadMesh" -> LoadMesh(call[2])

RenderScene ==
    /\ running = ""
    /\ Enter("RenderScene")

\* the next call of RenderScene
RenderSceneStep ==
    /\ running = "RenderScene"
    /\ \E call \in {RenderScript[pc]} :
         CASE call[1] = "SetTransformations" ->
                SetTransformations(call[2][1], call[2][2], call[2][3],
                                   call[2][4], call[2][5])
           [] call[1] = "SetShaderColor" -> SetShaderColor(call[2])
           [] call[1] = "SetShaderMaterial" -> SetShaderMaterial(call[2])
           [] call[1] = "SetShaderTexture" -> SetShaderTexture(call[2])
           [] call[1] = "DrawMesh" -> DrawMesh(call[2])

NextScene ==
    \/ PrepareScene
    \/ PrepareSceneStep
    \/ RenderScene
    \/ RenderSceneStep

SpecScene == Init /\ [][NextScene]_vars

\* material catalogue
NextMaterial ==
    \/ DefineObjectMaterials
    \/ \E tag \in MaterialTags : SetShaderMaterial(tag)
    \/ \E tag \in MaterialTags, material \in Indeterminate : CallFindMaterial(tag, material)

SpecMaterial == Init /\ [][NextMaterial]_vars

(***************************************************************************)
(* Camera operations.                                                      *)
(***************************************************************************)
WINDOW == "window"

Keys == {"ESCAPE", "W", "S", "A", "D", "Q", "E", "P", "O"}
\* the sets of keys held during a keyboard poll
KeySets ==
    {{}, {"P"}, {"O"}, {"P", "O"}, {"ESCAPE"},
     {"W"}, {"S"}, {"A"}, {"D"}, {"Q"}, {"E"},
     {"W", "S"}, {"W", "D", "Q"}, Keys}

\* cursor positions delivered to the mouse callback, in pixels: a wide range
\* for the mouse specification, two points for the frame specification
CursorXs == {0, 7}
CursorYs == {0, 300, 1000}
FrameCursors == {<<0, 0>>, <<7, 300>>}

\* a pitch constraint that stops short of the lower limit only
ClampPitchUpperOnly(pitch) ==
    IF pitch > PitchLimit THEN PitchLimit ELSE pitch

ClampPitch(pitch) ==
    IF pitch > PitchLimit THEN PitchLimit
    ELSE IF pitch < -PitchLimit THEN -PitchLimit
    ELSE pitch

\* yaw and pitch after the offsets are scaled and added and pitch is clamped;
\* the front/right/up basis follows from the two angles
ProcessMouseMovement(cam, xoffset, yoffset) ==
    [cam EXCEPT
        !.Yaw = cam.Yaw + xoffset * MouseSensitivity,
        !.Pitch = ClampPitch(cam.Pitch + yoffset * MouseSensitivity)]

Amount(pos, dir) ==
    IF \E p \in pos : p[1] = dir
    THEN (CHOOSE p \in pos : p[1] = dir)[2]
    ELSE 0

\* pos displaced by amount along the unit vector dir
Move(pos, dir, amount) ==
    LET new == Amount(pos, dir) + amount
    IN  {p \in pos : p[1] # dir} \cup (IF new = 0 THEN {} ELSE {<<dir, new>>})

ProcessKeyboard(cam, direction, deltaTime) ==
    LET velocity == cam.MovementSpeed * deltaTime
    IN  [cam EXCEPT !.Position =
            CASE direction = "FORWARD"  -> Move(cam.Position, Front(cam), velocity)
              [] direction = "BACKWARD" -> Move(cam.Position, Front(cam), -velocity)
              [] direction = "LEFT"     -> Move(cam.Position, Right(cam), -velocity)
              [] direction = "RIGHT"    -> Move(cam.Position, Right(cam), velocity)
              [] direction = "UP"       -> Move(cam.Position, WorldUp, velocity)
              [] direction = "DOWN"     -> Move(cam.Position, WorldUp, -velocity)]

\* look-at matrix from Position, Position + Front and the up vector
GetViewMatrix(cam) == [eye |-> cam.Position, front |-> Front(cam)]

(***************************************************************************)
(* View manager.                                                           *)
(***************************************************************************)
\* a constructor that also starts the mouse capture afresh
ViewManagerResetsFirstMouse(pShaderManager) ==
    /\ ~crashed
    /\ v_pShaderManager' = pShaderManager
    /\ m_pWindow' = NULL
    /\ g_pCamera' = InitialCamera
    /\ gFirstMouse' = TRUE
    /\ Record("ViewManager", pShaderManager, 0)
    /\ UNCHANGED <<sceneVars, uniforms, crashed, glfwTerminated,
                   windowShouldClose, gLastX, gLastY, gDeltaTime,
                   gLastFrame, bOrthographicProjection, handed, built>>

\* another view controller takes the place of the current one: the members
\* are set by the constructor, the static members and the projection flag of
\* the translation unit keep the values they have
ViewManager(pShaderManager) ==
    /\ ~crashed
    /\ v_pShaderManager' = pShaderManager
    /\ m_pWindow' = NULL
    /\ g_pCamera' = InitialCamera
    /\ Record("ViewManager", pShaderManager, 0)
    /\ UNCHANGED <<sceneVars, uniforms, crashed, glfwTerminated,
                   windowShouldClose, gLastX, gLastY, gFirstMouse, gDeltaTime,
                   gLastFrame, bOrthographicProjection, handed, built>>

CreateDisplayWindow(created) ==
    /\ ~crashed
    /\ m_pWindow = NULL
    /\ ~glfwTerminated
    /\ IF created
       THEN /\ m_pWindow' = WINDOW
            /\ UNCHANGED glfwTerminated
       ELSE /\ glfwTerminated' = TRUE
            /\ UNCHANGED m_pWindow
    /\ Record("CreateDisplayWindow", "", created)
    /\ UNCHANGED <<sceneVars, uniforms, crashed, v_pShaderManager,
                   windowShouldClose, g_pCamera, gLastX, gLastY, gFirstMouse,
                   gDeltaTime, gLastFrame, bOrthographicProjection, handed,
                   built>>

\* a callback that takes the offsets from the stored position even on the
\* first event
MouseOffsetsNoCapture(xMousePos, yMousePos) ==
    <<xMousePos - gLastX, gLastY - yMousePos>>

\* the offsets the callback computes: on the first event the stored position
\* is first set to the event's own coordinates
MouseOffsets(xMousePos, yMousePos) ==
    LET lastX == IF gFirstMouse THEN xMousePos ELSE gLastX
        lastY == IF gFirstMouse THEN yMousePos ELSE gLastY
    IN  <<xMousePos - lastX, lastY - yMousePos>>

Mouse_Position_Callback(xMousePos, yMousePos) ==
    /\ ~crashed
    /\ m_pWindow # NULL
    /\ LET off == MouseOffsets(xMousePos, yMousePos)
       IN  /\ g_pCamera' = ProcessMouseMovement(g_pCamera, off[1], off[2])
           /\ handed' = off
    /\ gFirstMouse' = FALSE
    /\ gLastX' = xMousePos
    /\ gLastY' = yMousePos
    /\ Record("Mouse_Position_Callback", <<xMousePos, yMousePos>>, 0)
    /\ UNCHANGED <<sceneVars, uniforms, crashed, v_pShaderManager, m_pWindow,
                   glfwTerminated, windowShouldClose, gDeltaTime, gLastFrame,
                   bOrthographicProjection, built>>

\* field-of-view limits of the camera, in degrees, and scroll offsets of both
\* signs, small and far larger than the whole range
MinZoom == 1
MaxZoom == 90
ScrollOffsets == {-100, -7, -1, 1, 7, 100}

\* a field-of-view constraint that has no upper limit
ClampZoomLowerOnly(zoom) ==
    IF zoom < MinZoom THEN MinZoom ELSE zoom

ClampZoom(zoom) ==
    IF zoom < MinZoom THEN MinZoom
    ELSE IF zoom > MaxZoom THEN MaxZoom
    ELSE zoom

\* the field of view narrows by the scroll offset and is kept within its limits
ProcessMouseScroll(cam, yoffset) ==
    [cam EXCEPT !.Zoom = ClampZoom(cam.Zoom - yoffset)]

\* registered by CreateDisplayWindow, so delivered only once the window exists
scroll_callback(yoffset) ==
    /\ ~crashed
    /\ m_pWindow # NULL
    /\ g_pCamera' = ProcessMouseScroll(g_pCamera, yoffset)
    /\ Record("scroll_callback", yoffset, 0)
    /\ UNCHANGED <<sceneVars, uniforms, crashed, v_pShaderManager, m_pWindow,
                   glfwTerminated, windowShouldClose, gLastX, gLastY,
                   gFirstMouse, gDeltaTime, gLastFrame,
                   bOrthographicProjection, handed, built>>

\* the ProcessKeyboard calls one poll makes, in the order it makes them
KeyboardMoves(keys) ==
    (IF "W" \in keys THEN <<"FORWARD">> ELSE <<>>)
        \o (IF "S" \in keys THEN <<"BACKWARD">> ELSE <<>>)
        \o (IF "A" \in keys THEN <<"LEFT">> ELSE <<>>)
        \o (IF "D" \in keys THEN <<"RIGHT">> ELSE <<>>)
        \o (IF "Q" \in keys THEN <<"UP">> ELSE <<>>)
        \o (IF "E" \in keys THEN <<"DOWN">> ELSE <<>>)

\* a poll in which each key of a pair is checked only when the other key of
\* the pair is not held
KeyboardCameraExclusivePairs(cam, keys, deltaTime) ==
    LET cW == IF "W" \in keys THEN ProcessKeyboard(cam, "FORWARD", deltaTime) ELSE cam
        cS == IF "S" \in keys /\ "W" \notin keys
              THEN ProcessKeyboard(cW, "BACKWARD", deltaTime) ELSE cW
        cA == IF "A" \in keys THEN ProcessKeyboard(cS, "LEFT", deltaTime) ELSE cS
        cD == IF "D" \in keys /\ "A" \notin keys
              THEN ProcessKeyboard(cA, "RIGHT", deltaTime) ELSE cA
        cQ == IF "Q" \in keys THEN ProcessKeyboard(cD, "UP", deltaTime) ELSE cD
        cE == IF "E" \in keys /\ "Q" \notin keys
              THEN ProcessKeyboard(cQ, "DOWN", deltaTime) ELSE cQ
    IN  cE

\* the camera after the six movement keys are polled in the order W S A D Q E
KeyboardCamera(cam, keys, deltaTime) ==
    LET cW == IF "W" \in keys THEN ProcessKeyboard(cam, "FORWARD", deltaTime) ELSE cam
        cS == IF "S" \in keys THEN ProcessKeyboard(cW, "BACKWARD", deltaTime) ELSE cW
        cA == IF "A" \in keys THEN ProcessKeyboard(cS, "LEFT", deltaTime) ELSE cS
        cD == IF "D" \in keys THEN ProcessKeyboard(cA, "RIGHT", deltaTime) ELSE cA
        cQ == IF "Q" \in keys THEN ProcessKeyboard(cD, "UP", deltaTime) ELSE cD
        cE == IF "E" \in keys THEN ProcessKeyboard(cQ, "DOWN", deltaTime) ELSE cQ
    IN  cE

\* a poll that checks O before P
KeyboardProjectionPLast(ortho, keys) ==
    LET afterO == IF "O" \in keys THEN TRUE ELSE ortho
    IN  IF "P" \in keys THEN FALSE ELSE afterO

\* a poll in which P flips the mode instead of forcing perspective
KeyboardProjectionToggle(ortho, keys) ==
    LET afterP == IF "P" \in keys THEN ~ortho ELSE ortho
    IN  IF "O" \in keys THEN TRUE ELSE afterP

\* the projection flag after P and then O are polled
KeyboardProjection(ortho, keys) ==
    LET afterP == IF "P" \in keys THEN FALSE ELSE ortho
    IN  IF "O" \in keys THEN TRUE ELSE afterP

\* the state ProcessKeyboardEvents leaves, given the keys held and gDeltaTime
ProcessKeyboardEvents(keys, deltaTime) ==
    [close |-> IF "ESCAPE" \in keys THEN TRUE ELSE windowShouldClose,
     camera |-> KeyboardCamera(g_pCamera, keys, deltaTime),
     ortho |-> KeyboardProjection(bOrthographicProjection, keys)]

OrthoMatrix ==
    [kind |-> "ortho", left |-> -orthoScale, right |-> orthoScale,
     bottom |-> -orthoScale, top |-> orthoScale,
     near |-> NearPlane, far |-> FarPlane]

PerspectiveMatrix(zoom) ==
    [kind |-> "perspective", fovy |-> zoom,
     aspect |-> <<WINDOW_WIDTH, WINDOW_HEIGHT>>,
     near |-> NearPlane, far |-> FarPlane]

\* a projection whose orthographic volume widens with the field of view
ProjectionMatrixZoomedOrtho(ortho, zoom) ==
    IF ortho
    THEN [kind |-> "ortho", left |-> -zoom, right |-> zoom,
          bottom |-> -zoom, top |-> zoom, near |-> NearPlane, far |-> FarPlane]
    ELSE PerspectiveMatrix(zoom)

ProjectionMatrix(ortho, zoom) ==
    IF ortho THEN OrthoMatrix ELSE PerspectiveMatrix(zoom)

\* a frame that polls the keyboard before it takes the frame's timing, so the
\* poll moves the camera by the time step of the frame before
PrepareSceneViewPollFirst(currentFrame, keys) ==
    /\ ~crashed
    /\ m_pWindow # NULL
    /\ currentFrame >= gLastFrame
    /\ gDeltaTime' = currentFrame - gLastFrame
    /\ gLastFrame' = currentFrame
    /\ \E k \in {ProcessKeyboardEvents(keys, gDeltaTime)} :
       \E view \in {GetViewMatrix(k.camera)} :
       \E projection \in {ProjectionMatrix(k.ortho, k.camera.Zoom)} :
           /\ windowShouldClose' = k.close
           /\ g_pCamera' = k.camera
           /\ bOrthographicProjection' = k.ortho
           /\ built' = [view |-> view, projection |-> projection]
           /\ uniforms' =
                 IF v_pShaderManager # NULL
                 THEN [uniforms EXCEPT
                         !["view"] = <<view>>,
                         !["projection"] = <<projection>>,
                         !["spotLight.position"] = <<k.camera.Position>>,
                         !["spotLight.direction"] = <<Front(k.camera)>>]
                 ELSE uniforms
    /\ Record("PrepareSceneView", keys, KeyboardMoves(keys))
    /\ UNCHANGED <<sceneVars, crashed, v_pShaderManager, m_pWindow,
                   glfwTerminated, gLastX, gLastY, gFirstMouse, handed>>

\* a frame that pushes the spot light from the camera as it stood before the
\* keyboard poll
PrepareSceneViewStaleSpot(currentFrame, keys) ==
    /\ ~crashed
    /\ m_pWindow # NULL
    /\ currentFrame >= gLastFrame
    /\ gDeltaTime' = currentFrame - gLastFrame
    /\ gLastFrame' = currentFrame
    /\ \E k \in {ProcessKeyboardEvents(keys, currentFrame - gLastFrame)} :
       \E view \in {GetViewMatrix(k.camera)} :
       \E projection \in {ProjectionMatrix(k.ortho, k.camera.Zoom)} :
           /\ windowShouldClose' = k.close
           /\ g_pCamera' = k.camera
           /\ bOrthographicProjection' = k.ortho
           /\ built' = [view |-> view, projection |-> projection]
           /\ uniforms' =
                 IF v_pShaderManager # NULL
                 THEN [uniforms EXCEPT
                         !["view"] = <<view>>,
                         !["projection"] = <<projection>>,
                         !["spotLight.position"] = <<g_pCamera.Position>>,
                         !["spotLight.direction"] = <<Front(g_pCamera)>>]
                 ELSE uniforms
    /\ Record("PrepareSceneView", keys, KeyboardMoves(keys))
    /\ UNCHANGED <<sceneVars, crashed, v_pShaderManager, m_pWindow,
                   glfwTerminated, gLastX, gLastY, gFirstMouse, handed>>

PrepareSceneView(currentFrame, keys) ==
    /\ ~crashed
    /\ m_pWindow # NULL
    /\ currentFrame >= gLastFrame
    /\ gDeltaTime' = currentFrame - gLastFrame
    /\ gLastFrame' = currentFrame
    /\ \E k \in {ProcessKeyboardEvents(keys, currentFrame - gLastFrame)} :
       \E view \in {GetViewMatrix(k.camera)} :
       \E projection \in {ProjectionMatrix(k.ortho, k.camera.Zoom)} :
           /\ windowShouldClose' = k.close
           /\ g_pCamera' = k.camera
           /\ bOrthographicProjection' = k.ortho
           /\ built' = [view |-> view, projection |-> projection]
           /\ uniforms' =
                 IF v_pShaderManager # NULL
                 THEN [uniforms EXCEPT
                         !["view"] = <<view>>,
                         !["projection"] = <<projection>>,
                         !["spotLight.position"] = <<k.camera.Position>>,
                         !["spotLight.direction"] = <<Front(k.camera)>>]
                 ELSE uniforms
    /\ Record("PrepareSceneView", keys, KeyboardMoves(keys))
    /\ UNCHANGED <<sceneVars, crashed, v_pShaderManager, m_pWindow,
                   glfwTerminated, gLastX, gLastY, gFirstMouse, handed>>

\* mouse events over a wide range of cursor positions
NextMouse ==
    \/ \E created \in BOOLEAN : CreateDisplayWindow(created)
    \/ \E x \in CursorXs, y \in CursorYs : Mouse_Position_Callback(x, y)

SpecMouse == Init /\ [][NextMouse]_vars

\* mouse events delivered to one view controller after another
NextController ==
    \/ \E pShaderManager \in {NULL, SHADER} : ViewManager(pShaderManager)
    \/ \E created \in BOOLEAN : CreateDisplayWindow(created)
    \/ \E x \in CursorXs, y \in CursorYs : Mouse_Position_Callback(x, y)

SpecController == Init /\ [][NextController]_vars

\* scroll events
NextScroll ==
    \/ \E created \in BOOLEAN : CreateDisplayWindow(created)
    \/ \E yoffset \in ScrollOffsets : scroll_callback(yoffset)

SpecScroll == Init /\ [][NextScroll]_vars

\* frames in either projection mode, between scroll events that widen the
\* field of view a little or narrow it past its lower limit
ZoomScrolls == {-7, 100}
ModeKeySets == {{}, {"P"}, {"O"}}

NextZoom ==
    \/ \E created \in BOOLEAN : CreateDisplayWindow(created)
    \/ \E yoffset \in ZoomScrolls : scroll_callback(yoffset)
    \/ \E t \in 0..MaxTime, keys \in ModeKeySets : PrepareSceneView(t, keys)

SpecZoom == Init /\ [][NextZoom]_vars

\* every operation that pushes to the shading interface, with and without one
PushOps ==
    {"SetTransformations", "SetShaderColor", "SetShaderTexture",
     "SetTextureUVScale", "SetShaderMaterial", "SetupSceneLights",
     "PrepareSceneView"}

NextPush ==
    \/ DefineObjectMaterials
    \/ \E created \in BOOLEAN : CreateDisplayWindow(created)
    \/ SetTransformations(<<2 * Unit, 3 * Unit, 4 * Unit>>, 90, 0, 0, <<Unit, 0, 0>>)
    \/ SetShaderColor(<<Unit, Unit, Unit, Unit>>)
    \/ SetShaderTexture("marble")
    \/ SetTextureUVScale(2 * Unit, Unit)
    \/ \E tag \in {"wood", "absent"} : SetShaderMaterial(tag)
    \/ SetupSceneLights
    \/ \E t \in 0..MaxTime : PrepareSceneView(t, {"W"})

SpecPush == Init /\ [][NextPush]_vars

\* light setup between frames that move the camera
LightKeySets == {{}, {"W"}}

NextLights ==
    \/ SetupSceneLights
    \/ \E created \in BOOLEAN : CreateDisplayWindow(created)
    \/ \E c \in FrameCursors : Mouse_Position_Callback(c[1], c[2])
    \/ \E t \in 0..MaxTime, keys \in LightKeySets : PrepareSceneView(t, keys)

SpecLights == Init /\ [][NextLights]_vars

\* frames with keyboard polls, between mouse events
NextView ==
    \/ \E created \in BOOLEAN : CreateDisplayWindow(created)
    \/ \E c \in FrameCursors : Mouse_Position_Callback(c[1], c[2])
    \/ \E t \in 0..MaxTime, keys \in KeySets : PrepareSceneView(t, keys)

SpecView == Init /\ [][NextView]_vars

(***************************************************************************)
(* History helpers for the claims.                                         *)
(***************************************************************************)
Registered(tag) == \E k \in 1..Len(loadLog) : loadLog[k].tag = tag

\* position in loadLog of the earliest successful load of tag
FirstLoad(tag) ==
    CHOOSE k \in 1..Len(loadLog) :
        /\ loadLog[k].tag = tag
        /\ \A j \in 1..(k - 1) : loadLog[j].tag # tag

ExpectedID(tag) == IF Registered(tag) THEN loadLog[FirstLoad(tag)].ID ELSE -1
ExpectedSlot(tag) == IF Registered(tag) THEN FirstLoad(tag) - 1 ELSE -1

CatalogueTags == {m_objectMaterials[i].tag : i \in 1..Len(m_objectMaterials)}

MaterialUniforms(u) ==
    <<u["material.diffuseColor"], u["material.specularColor"],
      u["material.shininess"]>>

TextureUniforms(u) == <<u["bUseTexture"], u["objectTexture"]>>

(***************************************************************************)
(* Claims.                                                                 *)
(***************************************************************************)
\* C1: after any sequence of loads, FindTextureID and FindTextureSlot return
\* -1 for every tag no successful load registered, and for a registered tag
\* the handle and the slot index stored for it (checked for every tag on the
\* current registry and on the result of every lookup call).
C1_LookupExact ==
    /\ \A t \in QueryTags :
         /\ FindTextureID(Seen(BlankEntry), m_loadedTextures, t) = ExpectedID(t)
         /\ FindTextureSlot(Seen(BlankEntry), m_loadedTextures, t) = ExpectedSlot(t)
    /\ lastOp = "FindTextureID" => lastRet = ExpectedID(lastArg)
    /\ lastOp = "FindTextureSlot" => lastRet = ExpectedSlot(lastArg)

C1_Witness ==
    /\ lastOp = "FindTextureID"
    /\ m_loadedTextures >= 2
    /\ lastArg = loadLog[2].tag
    /\ loadLog[1].tag # lastArg
    /\ lastRet = loadLog[2].ID
    /\ ~Registered("missing")

\* C2: the registry never holds more than 16 live entries, no load runs past
\* the array, BindAll binds units 0..15 only, and entries 0..15 keep the tag
\* and handle they were registered with.
C2_AtMostSixteen ==
    /\ m_loadedTextures <= MaxTextures
    /\ ~crashed
    /\ boundTexture[MaxTextures] = 0
    /\ \A i \in 0..(MaxTextures - 1) :
         i < Len(loadLog) => m_textureIDs[i] = loadLog[i + 1]

\* C3: a load that fails returns false and changes neither the load count nor
\* any entry, so the lookups of an unregistered tag still miss and the next
\* successful load takes the slot the failed one would have taken.
C3_FailedLoadNoEntry ==
    /\ [](/\ Len(loadLog) = m_loadedTextures
          /\ (lastOp = "CreateGLTexture" /\ lastRet = FALSE /\ ~Registered(lastArg))
                => /\ FindTextureID(Seen(BlankEntry), m_loadedTextures, lastArg) = -1
                   /\ FindTextureSlot(Seen(BlankEntry), m_loadedTextures, lastArg) = -1)
    /\ [][/\ (lastOp' = "CreateGLTexture" /\ lastRet' = FALSE)
               => UNCHANGED <<m_loadedTextures, m_textureIDs>>
          /\ (lastOp' = "CreateGLTexture" /\ lastRet' = TRUE)
               => /\ m_loadedTextures' = m_loadedTextures + 1
                  /\ m_textureIDs'[m_loadedTextures].tag = lastArg'
                  /\ \A i \in 0..(m_loadedTextures - 1) :
                        m_textureIDs'[i] = m_textureIDs[i]]_vars

\* a successful load took slot 0 after an unsupported-channel load had failed
C3_Witness ==
    /\ lastOp = "CreateGLTexture"
    /\ lastRet = TRUE
    /\ leakedImages > 0
    /\ m_loadedTextures = 1
    /\ m_textureIDs[0].ID > 1

\* C4: selecting a material tag absent from a non-empty catalogue writes none
\* of the three material uniforms.
C4_AbsentTagWritesNothing ==
    (/\ lastOp = "SetShaderMaterial"
     /\ Len(m_objectMaterials) > 0
     /\ lastArg \notin CatalogueTags)
        => MaterialUniforms(uniforms) = MaterialUniforms(prevUniforms)

\* C5: FindMaterial returns true exactly when the catalogue is non-empty,
\* whether or not the tag matched; with no matching entry the out-descriptor
\* keeps the caller's contents; with an empty catalogue SetShaderMaterial
\* pushes no uniform.
C5_FindReportsNonEmpty ==
    /\ lastOp = "FindMaterial" =>
         /\ lastRet.ret = (Len(m_objectMaterials) > 0)
         /\ lastArg.tag \notin CatalogueTags => lastRet.material = lastArg.material
    /\ (lastOp = "SetShaderMaterial" /\ Len(m_objectMaterials) = 0) =>
         /\ uniforms = prevUniforms
         /\ ~crashed

C5_Witness ==
    /\ lastOp = "FindMaterial"
    /\ lastArg.tag = "nonexistent"
    /\ Len(m_objectMaterials) > 0
    /\ lastRet.ret = TRUE
    /\ lastRet.material = lastArg.material

\* C6: setting the shader texture by a tag no successful load registered
\* leaves the use-texture flag and the sampler slot as they were.
C6_UnknownTagKeepsTextureState ==
    (lastOp = "SetShaderTexture" /\ ~Registered(lastArg))
        => TextureUniforms(uniforms) = TextureUniforms(prevUniforms)

C8_FirstEventCaptures ==
    /\ gFirstMouse <=> (handed = <<>>)
    /\ lastOp = "Mouse_Position_Callback" =>
         /\ gLastX = lastArg[1]
         /\ gLastY = lastArg[2]
         /\ ~gFirstMouse
         /\ prevView.firstMouse =>
               /\ g_pCamera = prevView.camera
               /\ handed = <<0, 0>>
         /\ ~prevView.firstMouse =>
               handed = <<lastArg[1] - prevView.lastX, prevView.lastY - lastArg[2]>>

\* a later event, away from the previous one in both coordinates, turned the camera
C8_Witness ==
    /\ lastOp = "Mouse_Position_Callback"
    /\ ~prevView.firstMouse
    /\ handed[1] # 0
    /\ handed[2] # 0
    /\ g_pCamera.Yaw = prevView.camera.Yaw + handed[1] * MouseSensitivity
    /\ g_pCamera.Pitch # prevView.camera.Pitch

\* C9: the mode starts as perspective; a poll with P and not O held leaves it
\* perspective, one with O and not P held leaves it orthographic, one with
\* neither leaves it as it was; nothing but a poll changes it.
C9_KeysForceMode ==
    /\ built = <<>> => ~bOrthographicProjection
    /\ lastOp # "PrepareSceneView" => bOrthographicProjection = prevView.ortho
    /\ lastOp = "PrepareSceneView" =>
         /\ ("P" \in lastArg /\ "O" \notin lastArg) => ~bOrthographicProjection
         /\ ("O" \in lastArg /\ "P" \notin lastArg) => bOrthographicProjection
         /\ ("P" \notin lastArg /\ "O" \notin lastArg)
               => bOrthographicProjection = prevView.ortho

\* a poll with only P held brought the mode back from orthographic
C9_Witness ==
    /\ lastOp = "PrepareSceneView"
    /\ lastArg = {"P"}
    /\ prevView.ortho
    /\ ~bOrthographicProjection
    /\ built.projection.kind = "perspective"

\* C10: when P and O are both held in one poll the mode after it is
\* orthographic whatever it was, and the projection built (and pushed) in that
\* frame is the orthographic one.
C10_BothKeysOrtho ==
    (lastOp = "PrepareSceneView" /\ {"P", "O"} \subseteq lastArg) =>
        /\ bOrthographicProjection
        /\ built.projection = OrthoMatrix
        /\ v_pShaderManager # NULL => uniforms["projection"] = <<OrthoMatrix>>

\* P and O held together while the mode was perspective
C10_Witness ==
    /\ lastOp = "PrepareSceneView"
    /\ lastArg = {"P", "O"}
    /\ ~prevView.ortho
    /\ bOrthographicProjection
    /\ uniforms["projection"] = <<OrthoMatrix>>

\* C11: texture teardown releases every handle a successful load allocated:
\* after DestroyGLTextures none of them is still allocated, and the teardown
\* has allocated no handle of its own.
C11_TeardownReleasesAll ==
    lastOp = "DestroyGLTextures"
        => /\ \A k \in 1..Len(loadLog) : loadLog[k].ID \notin glTextures
           /\ nextHandle = Len(loadLog) + leakedImages + 1

\* C12: on every path of CreateGLTexture on which the decoder returned pixel
\* data, the unsupported-channel path included, the pixel buffer is freed
\* before the call returns: no decoded image is ever left unfreed.
C12_ImageAlwaysFreed ==
    lastOp = "CreateGLTexture" => leakedImages = 0

\* C13: slots are dense and in insertion order: the k-th successful load
\* (from 0) is entry k, FindTextureSlot of its tag is k when no earlier entry
\* has that tag, and BindGLTextures binds entry i to texture unit i for every
\* live entry and leaves every other unit as it was.
C13_DenseSlots ==
    /\ [](/\ m_loadedTextures = Len(loadLog)
          /\ \A k \in 0..(Len(loadLog) - 1) :
               /\ m_textureIDs[k] = loadLog[k + 1]
               /\ (\A j \in 0..(k - 1) : loadLog[j + 1].tag # loadLog[k + 1].tag)
                     => FindTextureSlot(Seen(BlankEntry), m_loadedTextures,
                                        loadLog[k + 1].tag) = k)
    /\ [][lastOp' = "BindGLTextures"
             => \A u \in Units :
                   boundTexture'[u] =
                       IF u < Len(loadLog) THEN loadLog[u + 1].ID
                       ELSE boundTexture[u]]_vars

C13_Witness ==
    /\ lastOp = "BindGLTextures"
    /\ Len(loadLog) = 3
    /\ loadLog[2].tag # loadLog[1].tag
    /\ leakedImages > 0
    /\ \A u \in 0..2 : boundTexture[u] = loadLog[u + 1].ID
    /\ boundTexture[3] = 0

\* C14: loading a tag twice successfully leaves two coexisting entries with
\* distinct handles, and FindTextureSlot and FindTextureID of that tag give the
\* slot and the handle of the earlier entry, in every later state as well;
\* the later entry is never what a lookup returns.
C14_FirstMatchWins ==
    /\ \A a, b \in 1..Len(loadLog) :
         (a < b /\ loadLog[a].tag = loadLog[b].tag)
            => LET tag == loadLog[a].tag
                   slot == FindTextureSlot(Seen(BlankEntry), m_loadedTextures, tag)
                   id == FindTextureID(Seen(BlankEntry), m_loadedTextures, tag)
               IN  /\ m_textureIDs[a - 1] = loadLog[a]
                   /\ m_textureIDs[b - 1] = loadLog[b]
                   /\ loadLog[a].ID # loadLog[b].ID
                   /\ slot <= a - 1
                   /\ id # loadLog[b].ID
                   /\ id = m_textureIDs[slot].ID
    /\ \A b \in 2..Len(loadLog) :
         (\E a \in 1..(b - 1) : loadLog[a].tag = loadLog[b].tag)
            => /\ (lastOp = "FindTextureSlot" /\ lastArg = loadLog[b].tag)
                     => lastRet # b - 1
               /\ (lastOp = "FindTextureID" /\ lastArg = loadLog[b].tag)
                     => lastRet # loadLog[b].ID

C14_Witness ==
    /\ lastOp = "FindTextureSlot"
    /\ Len(loadLog) = 3
    /\ loadLog[1].tag # lastArg
    /\ loadLog[2].tag = lastArg
    /\ loadLog[3].tag = lastArg
    /\ lastRet = 1

\* the origin and the three unit points, and what scaling, turning about an
\* axis and translating do to a point
ProbePoints == {<<0, 0, 0>>, <<Unit, 0, 0>>, <<0, Unit, 0>>, <<0, 0, Unit>>}

ApplyRow(m, p, i) ==
    (m[i][1] * p[1] + m[i][2] * p[2] + m[i][3] * p[3] + m[i][4] * Unit) \div Unit

Apply(m, p) == <<ApplyRow(m, p, 1), ApplyRow(m, p, 2), ApplyRow(m, p, 3)>>

Scaled(p, s) ==
    <<(s[1] * p[1]) \div Unit, (s[2] * p[2]) \div Unit, (s[3] * p[3]) \div Unit>>

TurnedX(p, d) ==
    <<p[1],
      (CosDegrees(d) * p[2] - SinDegrees(d) * p[3]) \div Unit,
      (SinDegrees(d) * p[2] + CosDegrees(d) * p[3]) \div Unit>>

TurnedY(p, d) ==
    <<(CosDegrees(d) * p[1] + SinDegrees(d) * p[3]) \div Unit,
      p[2],
      (CosDegrees(d) * p[3] - SinDegrees(d) * p[1]) \div Unit>>

TurnedZ(p, d) ==
    <<(CosDegrees(d) * p[1] - SinDegrees(d) * p[2]) \div Unit,
      (SinDegrees(d) * p[1] + CosDegrees(d) * p[2]) \div Unit,
      p[3]>>

Moved(p, t) == <<p[1] + t[1], p[2] + t[2], p[3] + t[3]>>

\* C15: for whole-number scales and translations and rotations that are
\* multiples of 90 degrees, the model matrix SetTransformations pushes takes
\* every point to the point obtained by scaling it, then rotating it about X,
\* then about Y, then about Z, then translating it, which is the product
\* Translation * RotationZ * RotationY * RotationX * Scale; for scale 1,
\* rotation 0 and translation 0 it is the identity.
C15_ModelMatrixOrder ==
    (lastOp = "SetTransformations" /\ m_pShaderManager # NULL)
        => LET scaleXYZ == lastArg[1]
               X == lastArg[2]
               Y == lastArg[3]
               Z == lastArg[4]
               positionXYZ == lastArg[5]
               model == uniforms["model"][1]
           IN  /\ \A p \in ProbePoints :
                    Apply(model, p) =
                        Moved(TurnedZ(TurnedY(TurnedX(Scaled(p, scaleXYZ), X), Y), Z),
                              positionXYZ)
               /\ model[4] = <<0, 0, 0, Unit>>
               /\ (/\ scaleXYZ = <<Unit, Unit, Unit>>
                   /\ X = 0 /\ Y = 0 /\ Z = 0
                   /\ positionXYZ = <<0, 0, 0>>) => model = Identity

C15_Witness ==
    /\ lastOp = "SetTransformations"
    /\ m_pShaderManager # NULL
    /\ lastArg = <<<<2 * Unit, 3 * Unit, 4 * Unit>>, 90, 180, 270,
                   <<Unit, -2 * Unit, 3 * Unit>>>>
    /\ uniforms["model"] # prevUniforms["model"]
    /\ uniforms["model"][1] #
          Mul(ScaleMatrix(lastArg[1]),
              Mul(RotationX(90),
                  Mul(RotationY(180),
                      Mul(RotationZ(270), TranslationMatrix(lastArg[5])))))

\* C17: at the end of every frame's view/projection build with a shading
\* interface present, the view and the projection of the camera and mode as
\* they stand after that frame's keyboard poll have been pushed, and the spot
\* light's position and direction uniforms equal the camera's position and
\* front direction after that poll.
C17_SpotLightFollowsCamera ==
    (lastOp = "PrepareSceneView" /\ v_pShaderManager # NULL)
        => /\ uniforms["view"] = <<GetViewMatrix(g_pCamera)>>
           /\ uniforms["projection"] =
                 <<ProjectionMatrix(bOrthographicProjection, g_pCamera.Zoom)>>
           /\ uniforms["spotLight.position"] = <<g_pCamera.Position>>
           /\ uniforms["spotLight.direction"] = <<Front(g_pCamera)>>

\* a frame in which W moved the camera after the mouse had turned it
C17_Witness ==
    /\ lastOp = "PrepareSceneView"
    /\ v_pShaderManager # NULL
    /\ lastArg = {"W"}
    /\ gDeltaTime > 0
    /\ g_pCamera.Position # prevView.camera.Position
    /\ g_pCamera.Yaw # InitialCamera.Yaw
    /\ uniforms["spotLight.position"] = <<g_pCamera.Position>>
    /\ uniforms["spotLight.position"] # prevUniforms["spotLight.position"]

\* C20: the zoom field of view stays between 1 and 90 degrees in every state
\* reachable from the initial zoom of 80 by scroll events of either sign and
\* of any magnitude.
C20_ZoomWithinBounds ==
    /\ 1 <= g_pCamera.Zoom
    /\ g_pCamera.Zoom <= 90

\* one large scroll took the zoom from its lower limit to its upper limit
C20_Witness ==
    /\ lastOp = "scroll_callback"
    /\ lastArg = -100
    /\ prevView.camera.Zoom = 1
    /\ g_pCamera.Zoom = 90

ActiveFlags ==
    {"pointLights[0].bActive", "pointLights[1].bActive",
     "directionalLight.bActive", "spotLight.bActive"}

\* C19: light setup is idempotent: a second SetupSceneLights right after a
\* first leaves every uniform as it was; after a setup the lighting-enabled
\* flag and the active flags of the two point lights, the directional light
\* and the spot light are true, and the setup has written neither the spot
\* light's position nor its direction, nor any uniform that is not a light's.
C19_LightSetupIdempotent ==
    /\ []((lastOp = "SetupSceneLights" /\ m_pShaderManager # NULL /\ ~crashed)
            => /\ uniforms["bUseLighting"] = <<1>>
               /\ \A n \in ActiveFlags : uniforms[n] = <<1>>
               /\ uniforms["spotLight.position"] = prevUniforms["spotLight.position"]
               /\ uniforms["spotLight.direction"] = prevUniforms["spotLight.direction"]
               /\ \A n \in UniformNames :
                    \/ uniforms[n] = prevUniforms[n]
                    \/ /\ n \notin {"spotLight.position", "spotLight.direction"}
                       /\ n \in {"bUseLighting"} \cup
                            {"pointLights[0]." \o f :
                                f \in {"position", "ambient", "diffuse", "specular", "bActive"}} \cup
                            {"pointLights[1]." \o f :
                                f \in {"position", "ambient", "diffuse", "specular", "bActive"}} \cup
                            {"directionalLight." \o f :
                                f \in {"direction", "ambient", "diffuse", "specular", "bActive"}} \cup
                            {"spotLight." \o f :
                                f \in {"ambient", "diffuse", "specular", "constant", "linear",
                                       "quadratic", "cutOff", "outerCutOff", "bActive"}})
    /\ [][(lastOp = "SetupSceneLights" /\ lastOp' = "SetupSceneLights"
              /\ m_pShaderManager # NULL)
             => uniforms' = uniforms]_vars

\* a second setup in a row, after a frame had placed the spot light
C19_Witness ==
    /\ lastOp = "SetupSceneLights"
    /\ ~crashed
    /\ prevUniforms = uniforms
    /\ uniforms["spotLight.bActive"] = <<1>>
    /\ uniforms["spotLight.position"] # UNSET
    /\ uniforms["spotLight.position"] # <<{}>>

\* position of a call in the order transform, colour, material, texture, draw
QuintupleRank(op) ==
    CASE op = "SetTransformations" -> 1
      [] op = "SetShaderColor" -> 2
      [] op = "SetShaderMaterial" -> 3
      [] op = "SetShaderTexture" -> 4
      [] op \in DrawOps -> 5
      [] OTHER -> 0

\* position of a call when colour and material may come in either order
ShadingRank(op) ==
    CASE op = "SetTransformations" -> 1
      [] op \in {"SetShaderColor", "SetShaderMaterial"} -> 2
      [] op = "SetShaderTexture" -> 3
      [] op \in DrawOps -> 4
      [] OTHER -> 0

Count(calls, op) == Cardinality({i \in 1..Len(calls) : calls[i] = op})

\* C18: a PrepareScene that has returned has loaded the two textures, bound
\* the texture units, defined the materials, set up the lights and loaded each
\* mesh exactly once; it bound the units after both of its loads and drew
\* nothing, so every registered texture is bound to the unit of its slot, and
\* at every draw call the slot the sampler uniform refers to is bound.
C18_PrepareOnceBindFirst ==
    /\ (lastOp = "LoadBoxMesh" /\ running = "")
          => /\ Count(trace, "CreateGLTexture") = 2
             /\ Count(trace, "BindGLTextures") = 1
             /\ Count(trace, "DefineObjectMaterials") = 1
             /\ Count(trace, "SetupSceneLights") = 1
             /\ \A mesh \in Meshes : Count(trace, "Load" \o mesh \o "Mesh") = 1
             /\ Len(trace) = 9
             /\ \A i, j \in 1..Len(trace) :
                  (trace[i] = "CreateGLTexture" /\ trace[j] = "BindGLTextures")
                     => i < j
             /\ \A i \in 0..(m_loadedTextures - 1) :
                  boundTexture[i] = m_textureIDs[i].ID
             /\ Len(m_objectMaterials) = 3 * meshLoads["Box"]
    /\ (lastOp \in DrawOps /\ uniforms["bUseTexture"] = <<1>>
            /\ uniforms["objectTexture"][1] >= 0)
          => /\ uniforms["objectTexture"][1] < m_loadedTextures
             /\ boundTexture[uniforms["objectTexture"][1]] =
                   m_textureIDs[uniforms["objectTexture"][1]].ID

\* a textured leg drawn after a preparation that loaded both textures
C18_Witness ==
    /\ lastOp = "DrawCylinderMesh"
    /\ meshLoads["Box"] = 1
    /\ m_loadedTextures = 2
    /\ uniforms["bUseTexture"] = <<1>>
    /\ uniforms["objectTexture"] = <<1>>
    /\ boundTexture[1] = m_textureIDs[1].ID
    /\ m_textureIDs[1].tag = "wood"

\* displacement of the camera along a unit direction over the last operation
Displacement(dir) ==
    Amount(g_pCamera.Position, dir) - Amount(prevView.camera.Position, dir)

\* C21: after every frame's view build gDeltaTime is the frame's time minus
\* the time the previous build recorded, the recorded time is the frame's, and
\* the keyboard poll of that frame has moved the camera by MovementSpeed times
\* that gDeltaTime along each direction (or not at all), never by the previous
\* frame's time step: a single held W moves it forward by exactly that much.
C21_DeltaTimeBeforePoll ==
    lastOp = "PrepareSceneView"
        => LET velocity == g_pCamera.MovementSpeed * gDeltaTime
           IN  /\ gDeltaTime = gLastFrame - prevView.lastFrame
               /\ gLastFrame >= prevView.lastFrame
               /\ \A dir \in {Front(g_pCamera), Right(g_pCamera), WorldUp} :
                    Displacement(dir) \in {-velocity, 0, velocity}
               /\ ("W" \in lastArg /\ "S" \notin lastArg)
                    => Displacement(Front(g_pCamera)) = velocity

\* a frame with W held whose time step is positive and differs from the
\* previous frame's
C21_Witness ==
    /\ lastOp = "PrepareSceneView"
    /\ "W" \in lastArg /\ "S" \notin lastArg
    /\ gDeltaTime > 0
    /\ prevView.deltaTime # gDeltaTime
    /\ Displacement(Front(g_pCamera)) = g_pCamera.MovementSpeed * gDeltaTime

\* the camera move each movement key stands for, in the order of the poll
MovementKeys ==
    <<<<"W", "FORWARD">>, <<"S", "BACKWARD">>, <<"A", "LEFT">>,
      <<"D", "RIGHT">>, <<"Q", "UP">>, <<"E", "DOWN">>>>

\* the moves of the held keys among the first n movement keys, in that order
RECURSIVE HeldMoves(_, _)
HeldMoves(keys, n) ==
    IF n = 0 THEN <<>>
    ELSE IF MovementKeys[n][1] \in keys
         THEN Append(HeldMoves(keys, n - 1), MovementKeys[n][2])
         ELSE HeldMoves(keys, n - 1)

\* 1 for a held key, 0 for one that is not held
Held(keys, key) == IF key \in keys THEN 1 ELSE 0

\* C22: one keyboard poll hands the camera one move for each held movement
\* key and none for the others, in the order W, S, A, D, Q, E, so the camera
\* is displaced by MovementSpeed * gDeltaTime once forward for W and once back
\* for S, once left for A and once right for D, once up for Q and once down
\* for E, and along no other direction; yaw, pitch, zoom and speed keep their
\* values, and the projection mode changes only when P or O is held.
C22_MovementKeysOnce ==
    lastOp = "PrepareSceneView"
        => LET keys == lastArg
               before == prevView.camera
               velocity == g_pCamera.MovementSpeed * gDeltaTime
               axes == {Front(g_pCamera), Right(g_pCamera), WorldUp}
           IN  /\ lastRet = HeldMoves(keys, Len(MovementKeys))
               /\ Displacement(Front(g_pCamera))
                    = velocity * (Held(keys, "W") - Held(keys, "S"))
               /\ Displacement(Right(g_pCamera))
                    = velocity * (Held(keys, "D") - Held(keys, "A"))
               /\ Displacement(WorldUp)
                    = velocity * (Held(keys, "Q") - Held(keys, "E"))
               /\ \A p \in g_pCamera.Position \cup before.Position :
                    p[1] \notin axes => Displacement(p[1]) = 0
               /\ g_pCamera.Yaw = before.Yaw
               /\ g_pCamera.Pitch = before.Pitch
               /\ g_pCamera.Zoom = before.Zoom
               /\ g_pCamera.MovementSpeed = before.MovementSpeed
               /\ keys \cap {"P", "O"} = {}
                    => bOrthographicProjection = prevView.ortho

\* a poll over a positive time step with W, D and Q held, after the mouse has
\* turned the camera: one move each, in that order, and the camera displaced
\* forward, right and up
C22_Witness ==
    /\ lastOp = "PrepareSceneView"
    /\ gDeltaTime > 0
    /\ lastArg = {"W", "D", "Q"}
    /\ lastRet = <<"FORWARD", "RIGHT", "UP">>
    /\ Displacement(Front(g_pCamera)) > 0
    /\ Displacement(Right(g_pCamera)) > 0
    /\ Displacement(WorldUp) > 0
    /\ prevView.camera.Yaw # InitialCamera.Yaw

\* C23: a frame built in Orthographic mode builds, and with a shading
\* interface pushes, the one volume with bounds -10..10 in X and Y, near 0.1
\* and far 100 (in tenths), whatever the zoom is and whatever scroll events
\* came before; a frame built in Perspective mode builds and pushes a
\* perspective projection whose field of view is the zoom, with aspect
\* 1000/800, near 0.1 and far 100.
C23_OrthoIgnoresZoom ==
    lastOp = "PrepareSceneView"
        => LET projection ==
                   IF bOrthographicProjection
                   THEN [kind |-> "ortho", left |-> -100, right |-> 100,
                         bottom |-> -100, top |-> 100, near |-> 1, far |-> 1000]
                   ELSE [kind |-> "perspective", fovy |-> g_pCamera.Zoom,
                         aspect |-> <<1000, 800>>, near |-> 1, far |-> 1000]
           IN  /\ built.projection = projection
               /\ v_pShaderManager # NULL => uniforms["projection"] = <<projection>>
               /\ v_pShaderManager = NULL => uniforms = prevUniforms

\* an orthographic frame that follows an orthographic frame and a scroll event
\* which changed the zoom in between, both pushing the same projection
C23_Witness ==
    /\ lastOp = "PrepareSceneView"
    /\ v_pShaderManager # NULL
    /\ bOrthographicProjection
    /\ prevView.ortho
    /\ lastArg = {}
    /\ g_pCamera.Zoom \notin {InitialCamera.Zoom, MinZoom, MaxZoom}
    /\ prevUniforms["projection"] = uniforms["projection"]
    /\ prevUniforms["view"] # UNSET

\* C24: with a null shading interface no operation that pushes to it uses it:
\* each of SetTransformations, SetShaderColor, SetShaderTexture,
\* SetTextureUVScale, SetShaderMaterial, SetupSceneLights and the per-frame view
\* build returns normally and leaves every uniform as it was.
C24_NullShaderNoOp ==
    m_pShaderManager = NULL
        => /\ ~crashed
           /\ lastOp \in PushOps => uniforms = prevUniforms

\* C25: gFirstMouse is true initially, is false after every mouse event and no
\* operation, the construction of another view controller included, sets it
\* back to true; so every mouse event after the first one of the process, the
\* first one a later controller receives too, hands the camera the offsets
\* from the stored cursor position.
C25_FirstMouseOnce ==
    /\ [](lastOp = "init" => gFirstMouse)
    /\ [][/\ gFirstMouse' => gFirstMouse
          /\ lastOp' = "Mouse_Position_Callback" => ~gFirstMouse']_vars
    /\ []((lastOp = "Mouse_Position_Callback" /\ ~prevView.firstMouse)
            => handed = <<lastArg[1] - prevView.lastX, prevView.lastY - lastArg[2]>>)

\* a mouse event delivered to a later controller whose camera still has its
\* defaults: no capture, the camera turns by the offsets from the position
\* stored under the controller before
C25_Witness ==
    /\ lastOp = "Mouse_Position_Callback"
    /\ v_pShaderManager # m_pShaderManager
    /\ prevView.camera = InitialCamera
    /\ ~prevView.firstMouse
    /\ handed[1] # 0
    /\ g_pCamera.Yaw # InitialCamera.Yaw

\* positions in a sequence of calls of those that write the use-texture flag
FlagCalls(calls) ==
    {i \in 1..Len(calls) : calls[i] \in {"SetShaderColor", "SetShaderTexture"}}

\* the largest of a non-empty set of positions
Last(positions) == CHOOSE i \in positions : \A j \in positions : j <= i

\* C26: in RenderScene the calls made since the previous draw, at every draw,
\* include a SetShaderColor or a SetShaderTexture, and with a shading interface
\* the use-texture flag at the draw is the one the last of them wrote: true
\* after SetShaderTexture, false after SetShaderColor.
C26_FlagSetInGroup ==
    lastOp \in DrawOps
        => /\ FlagCalls(trace) # {}
           /\ m_pShaderManager # NULL
                => uniforms["bUseTexture"] =
                      IF trace[Last(FlagCalls(trace))] = "SetShaderTexture"
                      THEN <<1>> ELSE <<0>>

\* the draw of the bowl body, coloured, right after the textured table legs
C26_Witness ==
    /\ lastOp = "DrawCylinderMesh"
    /\ trace = <<"SetTransformations", "SetShaderColor", "SetShaderMaterial",
                 "DrawCylinderMesh">>
    /\ m_pShaderManager # NULL
    /\ uniforms["bUseTexture"] = <<0>>
    /\ uniforms["objectTexture"] # UNSET
    /\ uniforms["objectColor"] = <<100, 100, 100, 100>>

====
